---- MODULE Spec2Model ----
(***************************************************************************)
(* A model of the two ESMF timing-summary reporters of cam-scripts:        *)
(*   run-cam/timing.py  children of a region, ranked, with an optional     *)
(*                      optimized overlay (prog = "run_cam")               *)
(*   timing/timing.py   named timers, baseline against optimized           *)
(*                      (prog = "timing")                                  *)
(* Positions are 1-based here (Python's are 0-based); 0 stands for the     *)
(* None that find_region_rows returns.  Times are the parsed decimal       *)
(* numbers in integer units; ratios are kept as num/den pairs and are      *)
(* compared by cross-multiplication.  A list of row dicts that aliases the *)
(* dicts of base_rows (base_children, base_children_sorted) is a sequence  *)
(* of positions in base_rows, so that a write through the alias is a       *)
(* write to base_rows.                                                     *)
(***************************************************************************)
EXTENDS Integers, Sequences, FiniteSets, TLC

VARIABLES
    prog,                 \* which script runs
    args,                 \* the parsed command line
    pc,                   \* position in main
    exit,                 \* "running", "ok", or the exception that ended the run
    read,                 \* the documents parse_esmf_summary has read
    base_rows,            \* rows parsed from the baseline
    opt_rows,             \* rows parsed from the optimized summary
    region,               \* the region inspected
    pidx,                 \* position of the parent in base_rows
    base_children,        \* positions in base_rows (same dict objects)
    base_children_sorted, \* positions in base_rows, ranked and truncated
    opt_map,              \* run_cam: name -> optimized row
    warned,               \* run_cam: the "overlay will be empty" warning was printed
    csv_rows,             \* run_cam: the output rows
    annotations,          \* the faster/slower label of each plotted row
    base_data,            \* timing: name -> baseline row
    opt_data              \* timing: name -> optimized row

vars == <<prog, args, pc, exit, read, base_rows, opt_rows, region, pidx,
          base_children, base_children_sorted, opt_map, warned, csv_rows,
          annotations, base_data, opt_data>>

----------------------------------------------------------------------------
\* Values

\* argparse's default for --region
None == "<None>"

\* ANNOTATE_THRESHOLD_PCT of run-cam/timing.py, in percent; timing/timing.py
\* takes --annotate-threshold, of the same default
ANNOTATE_THRESHOLD_PCT == 5

\* the default of --top
DefaultTop == 12

\* the key "% of parent (mean)" is not in a freshly parsed row
Absent == [kind |-> "absent", num |-> 0, den |-> 1]

NaN == [kind |-> "nan", num |-> 0, den |-> 1]

NoneVal == [kind |-> "none", num |-> 0, den |-> 1]

Ratio(n, d) == [kind |-> "val", num |-> n, den |-> d]

NoLabel == [kind |-> "none", unit |-> "", num |-> 0, den |-> 1]

Abs(x) == IF x < 0 THEN -x ELSE x

Min2(a, b) == IF a < b THEN a ELSE b

Max2(a, b) == IF a > b THEN a ELSE b

\* a line of a summary: either it matches pat, with its groups, or it does not
NoMatch == [match |-> FALSE, indent |-> 0, name |-> "", mean |-> 0]

Line(i, n, m) == [match |-> TRUE, indent |-> i, name |-> n, mean |-> m]

\* the sequences over S of length lo..hi
SeqsOf(S, lo, hi) == UNION {[1..n -> S] : n \in lo..hi}

Range(s) == {s[i] : i \in DOMAIN s}

----------------------------------------------------------------------------
\* The functions of the two scripts

\* the row dict built from one matching line
RowOf(line) ==
    [indent |-> line.indent, region |-> line.name, mean |-> line.mean,
     pct |-> Absent]

RECURSIVE ParseFrom(_, _, _)
ParseFrom(lines, i, rows) ==
    IF i > Len(lines) THEN rows
    ELSE IF ~lines[i].match THEN ParseFrom(lines, i + 1, rows)
    ELSE ParseFrom(lines, i + 1, Append(rows, RowOf(lines[i])))

\* the loop of parse_esmf_summary: non-matching lines are skipped
ParseRows(lines) == ParseFrom(lines, 1, <<>>)

RECURSIVE FindFrom(_, _, _)
FindFrom(rows, name, i) ==
    IF i > Len(rows) THEN 0
    ELSE IF rows[i].region = name THEN i
    ELSE FindFrom(rows, name, i + 1)

\* position of the first row of that name, 0 for (None, None)
find_region_rows(rows, name) == FindFrom(rows, name, 1)

RECURSIVE CollectFrom(_, _, _, _)
CollectFrom(rows, parent_indent, j, out) ==
    IF j > Len(rows) THEN out
    ELSE IF rows[j].indent <= parent_indent THEN out
    ELSE CollectFrom(rows, parent_indent, j + 1, Append(out, j))

RECURSIVE CollectFromLt(_, _, _, _)
CollectFromLt(rows, parent_indent, j, out) ==
    IF j > Len(rows) THEN out
    ELSE IF rows[j].indent < parent_indent THEN out
    ELSE CollectFromLt(rows, parent_indent, j + 1, Append(out, j))

\* collect_children breaking on indent < parent_indent
collect_children_lt(rows, parent_idx) ==
    CollectFromLt(rows, rows[parent_idx].indent, parent_idx + 1, <<>>)

RECURSIVE CollectLevel(_, _, _, _, _)
CollectLevel(rows, parent_indent, level, j, out) ==
    IF j > Len(rows) THEN out
    ELSE IF rows[j].indent <= parent_indent THEN out
    ELSE IF rows[j].indent > level
         THEN CollectLevel(rows, parent_indent, level, j + 1, out)
         ELSE CollectLevel(rows, parent_indent, level, j + 1, Append(out, j))

\* collect_children keeping one nesting level, that of the first child
collect_children_level(rows, parent_idx) ==
    IF parent_idx = Len(rows) THEN <<>>
    ELSE CollectLevel(rows, rows[parent_idx].indent,
                      rows[parent_idx + 1].indent, parent_idx + 1, <<>>)

\* the positions of the rows collect_children returns
collect_children(rows, parent_idx) ==
    CollectFrom(rows, rows[parent_idx].indent, parent_idx + 1, <<>>)

Put(m, k, v) == [x \in DOMAIN m \cup {k} |-> IF x = k THEN v ELSE m[x]]

RECURSIVE DictFrom(_, _, _)
DictFrom(rows, i, m) ==
    IF i > Len(rows) THEN m
    ELSE DictFrom(rows, i + 1, Put(m, rows[i].region, rows[i]))

RECURSIVE DictFirstFrom(_, _, _)
DictFirstFrom(rows, i, m) ==
    IF i > Len(rows) THEN m
    ELSE IF rows[i].region \in DOMAIN m THEN DictFirstFrom(rows, i + 1, m)
    ELSE DictFirstFrom(rows, i + 1, Put(m, rows[i].region, rows[i]))

\* build_region_map keeping the first occurrence of a name
build_region_map_first(rows) == DictFirstFrom(rows, 1, <<>>)

build_region_map(rows) == DictFrom(rows, 1, <<>>)

extract_named_regions(rows, names) ==
    SelectSeq(rows, LAMBDA row : row.region \in Range(names))

\* {r["region"]: r for r in extract_named_regions(rows, args.timers)}
NamedData(rows, names) == DictFrom(extract_named_regions(rows, names), 1, <<>>)

\* whether row x goes before row y, already placed: with strict, only when
\* its mean is larger
GoesBefore(rows, x, y, strict) ==
    IF strict THEN rows[x].mean > rows[y].mean
    ELSE rows[x].mean >= rows[y].mean

\* s with x put before the first element that x goes before
RECURSIVE InsertAt(_, _, _, _, _)
InsertAt(rows, s, x, i, strict) ==
    IF i > Len(s) THEN Append(s, x)
    ELSE IF GoesBefore(rows, x, s[i], strict)
         THEN SubSeq(s, 1, i - 1) \o <<x>> \o SubSeq(s, i, Len(s))
         ELSE InsertAt(rows, s, x, i + 1, strict)

RECURSIVE SortFrom(_, _, _, _, _)
SortFrom(rows, s, i, acc, strict) ==
    IF i > Len(s) THEN acc
    ELSE SortFrom(rows, s, i + 1, InsertAt(rows, acc, s[i], 1, strict), strict)

\* a sort that puts a row before the rows of equal mean already placed
sorted_unstable(rows, children) == SortFrom(rows, children, 1, <<>>, FALSE)

\* sorted(base_children, key=mean, reverse=True): stable, rows of equal mean
\* keep their order
sorted_by_mean(rows, children) == SortFrom(rows, children, 1, <<>>, TRUE)

\* s[:k]
slice_to(s, k) ==
    IF k >= 0 THEN SubSeq(s, 1, Min2(k, Len(s)))
    ELSE SubSeq(s, 1, Max2(Len(s) + k, 0))

\* 100.0 * (mean / pmean) if pmean > 0 else nan
share_of_parent(mean, pmean) ==
    IF pmean > 0 THEN Ratio(100 * mean, pmean) ELSE NaN

\* (base_mean / opt_mean) if opt_mean and opt_mean > 0 else None
speedup_of(base_mean, opt_mean) ==
    IF opt_mean > 0 THEN Ratio(base_mean, opt_mean) ELSE NoneVal

\* the label of run_cam's plot for one row, opt a number
annotate_run_cam(base_val, opt_val) ==
    IF base_val > 0
       /\ 100 * Abs(base_val - opt_val) >= ANNOTATE_THRESHOLD_PCT * base_val
    THEN [kind |-> IF base_val - opt_val > 0 THEN "faster" ELSE "slower",
          unit |-> "%", num |-> 100 * Abs(base_val - opt_val),
          den |-> base_val]
    ELSE NoLabel

\* the label of timing's plot for one timer
annotate_timing(base, opt, threshold) ==
    IF base > 0 /\ opt > 0
       /\ 100 * Abs(base - opt) >= threshold * base
    THEN [kind |-> IF base - opt > 0 THEN "faster" ELSE "slower",
          unit |-> "%", num |-> 100 * Abs(base - opt), den |-> base]
    ELSE NoLabel

----------------------------------------------------------------------------
\* run-cam/timing.py, main

Finished(how) == pc' = "done" /\ exit' = how

\* base_rows = parse_esmf_summary(args.summary)
ParseBaseline ==
    /\ prog = "run_cam" /\ pc = "parse"
    /\ read' = read \cup {"baseline"}
    /\ LET rows == ParseRows(args.summary) IN
       IF rows = <<>>
       THEN Finished("RuntimeError") /\ UNCHANGED base_rows
       ELSE base_rows' = rows /\ pc' = "find" /\ UNCHANGED exit
    /\ UNCHANGED <<prog, args, opt_rows, region, pidx, base_children,
                   base_children_sorted, opt_map, warned, csv_rows,
                   annotations, base_data, opt_data>>

\* the region chosen when --region is not given
DefaultRegion(rows) ==
    IF \E i \in DOMAIN rows : rows[i].region = "dyn_run" THEN "dyn_run"
    ELSE rows[1].region

\* choose region; parent, pidx = find_region_rows(base_rows, region)
FindRegion ==
    /\ prog = "run_cam" /\ pc = "find"
    /\ region' = IF args.region = None THEN DefaultRegion(base_rows)
                 ELSE args.region
    /\ pidx' = find_region_rows(base_rows, region')
    /\ IF pidx' = 0 THEN Finished("SystemExit")
       ELSE pc' = "collect" /\ UNCHANGED exit
    /\ UNCHANGED <<prog, args, read, base_rows, opt_rows, base_children,
                   base_children_sorted, opt_map, warned, csv_rows,
                   annotations, base_data, opt_data>>

\* base_children = collect_children(base_rows, pidx); return 0 when empty
CollectChildren ==
    /\ prog = "run_cam" /\ pc = "collect"
    /\ base_children' = collect_children(base_rows, pidx)
    /\ IF base_children' = <<>> THEN Finished("ok")
       ELSE pc' = "share" /\ UNCHANGED exit
    /\ UNCHANGED <<prog, args, read, base_rows, opt_rows, region, pidx,
                   base_children_sorted, opt_map, warned, csv_rows,
                   annotations, base_data, opt_data>>

\* for r in base_children: r["% of parent (mean)"] = ...
\* r is the dict that base_rows holds
ShareOfParent ==
    /\ prog = "run_cam" /\ pc = "share"
    /\ LET pmean == base_rows[pidx].mean IN
       base_rows' =
           [j \in DOMAIN base_rows |->
               IF j \in Range(base_children)
               THEN [base_rows[j] EXCEPT
                        !.pct = share_of_parent(base_rows[j].mean, pmean)]
               ELSE base_rows[j]]
    /\ pc' = "sort"
    /\ UNCHANGED <<prog, args, exit, read, opt_rows, region, pidx,
                   base_children, base_children_sorted, opt_map, warned,
                   csv_rows, annotations, base_data, opt_data>>

\* base_children_sorted = sorted(base_children, ...)[: args.top]
SortTruncate ==
    /\ prog = "run_cam" /\ pc = "sort"
    /\ base_children_sorted' =
           slice_to(sorted_by_mean(base_rows, base_children), args.top)
    /\ pc' = "overlay"
    /\ UNCHANGED <<prog, args, exit, read, base_rows, opt_rows, region, pidx,
                   base_children, opt_map, warned, csv_rows, annotations,
                   base_data, opt_data>>

\* opt_map = {}; if args.optimized_summary: parse, look the region up, warn,
\* opt_map = build_region_map(opt_rows)
PrepareOverlay ==
    /\ prog = "run_cam" /\ pc = "overlay"
    /\ IF ~args.has_opt
       THEN /\ pc' = "rows"
            /\ UNCHANGED <<exit, read, opt_rows, opt_map, warned>>
       ELSE /\ read' = read \cup {"optimized"}
            /\ LET rows == ParseRows(args.optimized_summary) IN
               IF rows = <<>>
               THEN /\ Finished("RuntimeError")
                    /\ UNCHANGED <<opt_rows, opt_map, warned>>
               ELSE /\ opt_rows' = rows
                    /\ warned' = (find_region_rows(rows, region) = 0)
                    /\ opt_map' = build_region_map(rows)
                    /\ pc' = "rows"
                    /\ UNCHANGED exit
    /\ UNCHANGED <<prog, args, base_rows, region, pidx, base_children,
                   base_children_sorted, csv_rows, annotations, base_data,
                   opt_data>>

\* row_out of one selected child r, a position in base_rows
RowOut(r) ==
    LET name == base_rows[r].region
        base_mean == base_rows[r].mean
    IN  IF args.has_opt /\ name \in DOMAIN opt_map
        THEN [region |-> name, baseline_mean_s |-> base_mean,
              counterpart |-> TRUE,
              optimized_mean_s |-> opt_map[name].mean,
              speedup_base_over_opt |->
                  speedup_of(base_mean, opt_map[name].mean)]
        ELSE [region |-> name, baseline_mean_s |-> base_mean,
              counterpart |-> FALSE,
              optimized_mean_s |-> 0,
              speedup_base_over_opt |-> NoneVal]

\* for r in base_children_sorted: ... csv_rows.append(row_out)
AssembleRows ==
    /\ prog = "run_cam" /\ pc = "rows"
    /\ csv_rows' = [k \in DOMAIN base_children_sorted |->
                       RowOut(base_children_sorted[k])]
    /\ IF args.png THEN pc' = "plot" /\ UNCHANGED exit ELSE Finished("ok")
    /\ UNCHANGED <<prog, args, read, base_rows, opt_rows, region, pidx,
                   base_children, base_children_sorted, opt_map, warned,
                   annotations, base_data, opt_data>>

\* labels.index(lbl): the first plotted row of that name
LabelIndex(lbl) ==
    CHOOSE k \in DOMAIN csv_rows :
        /\ csv_rows[k].region = lbl
        /\ \A h \in 1..(k - 1) : csv_rows[h].region # lbl

\* the label written for plotted row k: opt_means is taken at
\* labels.index(lbl), the baseline mean at the row itself
PlotLabel(k) ==
    LET o == csv_rows[LabelIndex(csv_rows[k].region)] IN
    IF ~o.counterpart THEN NoLabel
    ELSE annotate_run_cam(csv_rows[k].baseline_mean_s, o.optimized_mean_s)

\* if args.png: ... annotate percent faster/slower
Plot ==
    /\ prog = "run_cam" /\ pc = "plot"
    /\ annotations' = IF args.has_opt
                      THEN [k \in DOMAIN csv_rows |-> PlotLabel(k)]
                      ELSE <<>>
    /\ Finished("ok")
    /\ UNCHANGED <<prog, args, read, base_rows, opt_rows, region, pidx,
                   base_children, base_children_sorted, opt_map, warned,
                   csv_rows, base_data, opt_data>>

----------------------------------------------------------------------------
\* timing/timing.py, main

\* base_rows = parse_esmf_summary(args.baseline); opt_rows = ... else []
\* this parse_esmf_summary returns the rows whatever their number
TimingParse ==
    /\ prog = "timing" /\ pc = "parse"
    /\ base_rows' = ParseRows(args.summary)
    /\ opt_rows' = IF args.has_opt THEN ParseRows(args.optimized_summary)
                   ELSE <<>>
    /\ read' = IF args.has_opt THEN {"baseline", "optimized"}
               ELSE {"baseline"}
    /\ pc' = "extract"
    /\ UNCHANGED <<prog, args, exit, region, pidx, base_children,
                   base_children_sorted, opt_map, warned, csv_rows,
                   annotations, base_data, opt_data>>

\* base_data = {...}; opt_data = {...} if opt_rows else {}
TimingExtract ==
    /\ prog = "timing" /\ pc = "extract"
    /\ base_data' = NamedData(base_rows, args.timers)
    /\ opt_data' = IF opt_rows # <<>> THEN NamedData(opt_rows, args.timers)
                   ELSE <<>>
    /\ pc' = "baseline"
    /\ UNCHANGED <<prog, args, exit, read, base_rows, opt_rows, region, pidx,
                   base_children, base_children_sorted, opt_map, warned,
                   csv_rows, annotations>>

\* base_means = [base_data[r]["Mean (s)"] for r in args.timers]
TimingBaseline ==
    /\ prog = "timing" /\ pc = "baseline"
    /\ IF \E i \in DOMAIN args.timers : args.timers[i] \notin DOMAIN base_data
       THEN Finished("KeyError")
       ELSE pc' = "overlay" /\ UNCHANGED exit
    /\ UNCHANGED <<prog, args, read, base_rows, opt_rows, region, pidx,
                   base_children, base_children_sorted, opt_map, warned,
                   csv_rows, annotations, base_data, opt_data>>

\* if opt_data: opt_means = [opt_data[r]["Mean (s)"] for r in args.timers];
\* for i, label in enumerate(labels): ... ax.text(...)
TimingOverlay ==
    /\ prog = "timing" /\ pc = "overlay"
    /\ IF DOMAIN opt_data = {}
       THEN Finished("ok") /\ UNCHANGED annotations
       ELSE IF \E i \in DOMAIN args.timers :
                   args.timers[i] \notin DOMAIN opt_data
       THEN Finished("KeyError") /\ UNCHANGED annotations
       ELSE /\ annotations' =
                  [i \in DOMAIN args.timers |->
                      annotate_timing(base_data[args.timers[i]].mean,
                                      opt_data[args.timers[i]].mean,
                                      args.annotate_threshold)]
            /\ Finished("ok")
    /\ UNCHANGED <<prog, args, read, base_rows, opt_rows, region, pidx,
                   base_children, base_children_sorted, opt_map, warned,
                   csv_rows, base_data, opt_data>>

----------------------------------------------------------------------------
\* Runs of the two scripts

NextRunCam ==
    \/ ParseBaseline
    \/ FindRegion
    \/ CollectChildren
    \/ ShareOfParent
    \/ SortTruncate
    \/ PrepareOverlay
    \/ AssembleRows
    \/ Plot

NextTiming ==
    \/ TimingParse
    \/ TimingExtract
    \/ TimingBaseline
    \/ TimingOverlay

Next == NextRunCam \/ NextTiming

\* the state main starts in
Fresh ==
    /\ exit = "running"
    /\ read = {}
    /\ base_rows = <<>>
    /\ opt_rows = <<>>
    /\ region = None
    /\ pidx = 0
    /\ base_children = <<>>
    /\ base_children_sorted = <<>>
    /\ opt_map = <<>>
    /\ warned = FALSE
    /\ csv_rows = <<>>
    /\ annotations = <<>>
    /\ base_data = <<>>
    /\ opt_data = <<>>

\* longest baseline and optimized summaries of the runs of Spec
RunMaxLines == 3

OptMaxLines == 2

RunCamBaseLines ==
    {NoMatch} \cup
    {Line(i, n, m) : i \in 0..1, n \in {"dyn_run", "a"}, m \in {0, 20}}

RunCamOptLines ==
    {NoMatch} \cup {Line(0, n, m) : n \in {"dyn_run", "a"}, m \in {0, 19}}

TimingLines ==
    {NoMatch} \cup {Line(0, n, m) : n \in {"a", "b"}, m \in {0, 19, 20}}

\* the optional second document: absent, or one of docs
OptChoices(docs) ==
    {[has_opt |-> FALSE, doc |-> <<>>]} \cup
    {[has_opt |-> TRUE, doc |-> d] : d \in docs}

InitRunCam ==
    /\ prog = "run_cam"
    /\ pc = "parse"
    /\ \E base \in SeqsOf(RunCamBaseLines, 0, RunMaxLines),
          opt \in OptChoices(SeqsOf(RunCamOptLines, 0, OptMaxLines)),
          reg \in {None, "a"}, top \in {1, DefaultTop}, png \in BOOLEAN :
          args = [summary |-> base, has_opt |-> opt.has_opt,
                  optimized_summary |-> opt.doc, region |-> reg, top |-> top,
                  png |-> png, timers |-> <<>>,
                  annotate_threshold |-> ANNOTATE_THRESHOLD_PCT,
                  use_times |-> FALSE]
    /\ Fresh

InitTiming ==
    /\ prog = "timing"
    /\ pc = "parse"
    /\ \E base \in SeqsOf(TimingLines, 0, OptMaxLines),
          opt \in OptChoices(SeqsOf(TimingLines, 0, OptMaxLines)),
          timers \in {<<"a">>, <<"a", "b">>},
          threshold \in {0, ANNOTATE_THRESHOLD_PCT, 6},
          use_times \in BOOLEAN :
          args = [summary |-> base, has_opt |-> opt.has_opt,
                  optimized_summary |-> opt.doc, region |-> None,
                  top |-> DefaultTop, png |-> TRUE, timers |-> timers,
                  annotate_threshold |-> threshold, use_times |-> use_times]
    /\ Fresh

Init == InitRunCam \/ InitTiming

Spec == Init /\ [][Next]_vars

----------------------------------------------------------------------------
\* Specifications of the single functions: main entered at the call, with
\* the function's inputs drawn from wider sets

\* a region name for each position of a summary
NameAt(i) == "r" \o ToString(i)

\* bounds of TreeSpec: rows of a summary, and the deepest indent
TreeMaxLen == 5

MaxIndent == 2

\* collect_children on every sequence of rows and every parent position
InitTree ==
    /\ prog = "run_cam"
    /\ pc = "collect"
    /\ \E n \in 1..TreeMaxLen :
       \E ind \in [1..n -> 0..MaxIndent], p \in 1..n :
          /\ base_rows = [i \in 1..n |->
                             [indent |-> ind[i], region |-> NameAt(i),
                              mean |-> 1, pct |-> Absent]]
          /\ pidx = p
          /\ region = NameAt(p)
          /\ args = [summary |-> [i \in 1..n |-> Line(ind[i], NameAt(i), 1)],
                     has_opt |-> FALSE, optimized_summary |-> <<>>,
                     region |-> NameAt(p), top |-> DefaultTop, png |-> FALSE,
                     timers |-> <<>>,
                     annotate_threshold |-> ANNOTATE_THRESHOLD_PCT,
                     use_times |-> FALSE]
    /\ exit = "running"
    /\ read = {"baseline"}
    /\ opt_rows = <<>>
    /\ base_children = <<>>
    /\ base_children_sorted = <<>>
    /\ opt_map = <<>>
    /\ warned = FALSE
    /\ csv_rows = <<>>
    /\ annotations = <<>>
    /\ base_data = <<>>
    /\ opt_data = <<>>

TreeNext == CollectChildren

TreeSpec == InitTree /\ [][TreeNext]_vars

\* bounds of RankSpec: children of the parent, their largest mean, and the
\* largest |--top|
RankMaxChildren == 3

MaxMean == 2

MaxTop == 4

RankLines == {Line(1, n, m) : n \in {"a", "b"}, m \in 0..MaxMean}

\* the ranking on every list of children and every --top
InitRank ==
    /\ prog = "run_cam"
    /\ pc = "collect"
    /\ \E kids \in SeqsOf(RankLines, 0, RankMaxChildren),
          top \in (-MaxTop)..MaxTop :
          /\ args = [summary |-> <<Line(0, "dyn_run", MaxMean)>> \o kids,
                     has_opt |-> FALSE, optimized_summary |-> <<>>,
                     region |-> None, top |-> top, png |-> FALSE,
                     timers |-> <<>>,
                     annotate_threshold |-> ANNOTATE_THRESHOLD_PCT,
                     use_times |-> FALSE]
          /\ base_rows = ParseRows(args.summary)
    /\ region = "dyn_run"
    /\ pidx = 1
    /\ exit = "running"
    /\ read = {"baseline"}
    /\ opt_rows = <<>>
    /\ base_children = <<>>
    /\ base_children_sorted = <<>>
    /\ opt_map = <<>>
    /\ warned = FALSE
    /\ csv_rows = <<>>
    /\ annotations = <<>>
    /\ base_data = <<>>
    /\ opt_data = <<>>

RankNext == CollectChildren \/ ShareOfParent \/ SortTruncate

RankSpec == InitRank /\ [][RankNext]_vars

\* bound of RegistrySpec: lines of a summary
RegMaxLines == 3

RegLines ==
    {NoMatch} \cup {Line(0, n, m) : n \in {"a", "b", "c"}, m \in {1, 2}}

\* the registries on every summary: run_cam's opt_map under a fixed baseline,
\* timing's base_data and opt_data under every choice of timers
InitRegistry ==
    /\ pc = "parse"
    /\ \/ /\ prog = "run_cam"
          /\ \E opt \in SeqsOf(RegLines, 0, RegMaxLines) :
                args = [summary |-> <<Line(0, "dyn_run", 2), Line(1, "a", 1)>>,
                        has_opt |-> TRUE, optimized_summary |-> opt,
                        region |-> None, top |-> DefaultTop, png |-> TRUE,
                        timers |-> <<>>,
                        annotate_threshold |-> ANNOTATE_THRESHOLD_PCT,
                        use_times |-> FALSE]
       \/ /\ prog = "timing"
          /\ \E doc \in SeqsOf(RegLines, 0, RegMaxLines),
                timers \in {<<"a">>, <<"a", "b">>, <<"c", "a">>} :
                args = [summary |-> doc, has_opt |-> TRUE,
                        optimized_summary |-> doc, region |-> None,
                        top |-> DefaultTop, png |-> TRUE, timers |-> timers,
                        annotate_threshold |-> ANNOTATE_THRESHOLD_PCT,
                        use_times |-> FALSE]
    /\ Fresh

RegistrySpec == InitRegistry /\ [][Next]_vars

----------------------------------------------------------------------------
\* Properties

\* the ranked selection is there
Ranked == prog = "run_cam" /\ pc = "overlay"

\* rows of equal mean are selected in document order, and the means do not
\* increase along the selection
RankedInOrder ==
    \A i, j \in DOMAIN base_children_sorted :
        i < j =>
            /\ base_rows[base_children_sorted[i]].mean
                   >= base_rows[base_children_sorted[j]].mean
            /\ base_rows[base_children_sorted[i]].mean
                   = base_rows[base_children_sorted[j]].mean
               => base_children_sorted[i] < base_children_sorted[j]

\* C1, as claimed: for every ChildSet and every --top N, the ranked selection
\* has exactly min(N, number of children) rows, its means do not increase,
\* and children of equal mean keep their document order.
C1_RankedSelectionAsClaimed ==
    Ranked =>
        /\ Len(base_children_sorted) = Min2(args.top, Len(base_children))
        /\ RankedInOrder

\* C1, amended: the selection has min(N, number of children) rows when
\* N >= 0 and max(0, number of children + N) rows when N < 0 (the slice
\* [:N] drops the last |N| rows); in both cases the selected rows are
\* children, each at most once, their means do not increase, and children
\* of equal mean keep their document order.
C1_RankedSelection ==
    Ranked =>
        /\ Len(base_children_sorted) =
               IF args.top >= 0 THEN Min2(args.top, Len(base_children))
               ELSE Max2(Len(base_children) + args.top, 0)
        /\ Range(base_children_sorted) \subseteq Range(base_children)
        /\ \A i, j \in DOMAIN base_children_sorted :
               i # j => base_children_sorted[i] # base_children_sorted[j]
        /\ RankedInOrder

\* three children with a tie among the two selected, under a negative --top
C1_Witness ==
    /\ Ranked
    /\ args.top < 0
    /\ Len(base_children) = 3
    /\ Len(base_children_sorted) = 2
    /\ base_rows[base_children_sorted[1]].mean
           = base_rows[base_children_sorted[2]].mean

\* collect_children has returned
Collected == prog = "run_cam" /\ pc \notin {"parse", "find", "collect"}

\* the first position after p of a row no deeper than row p, or the end
RunEnd(rows, p) ==
    LET shallow == {j \in (p + 1)..Len(rows) : rows[j].indent <= rows[p].indent}
    IN  IF shallow = {} THEN Len(rows) + 1
        ELSE CHOOSE k \in shallow : \A j \in shallow : k <= j

\* C3: collect_children returns exactly the records at positions p+1..k-1,
\* k the first position after p whose indent is <= the parent's (or the
\* end): contiguous, each deeper than the parent, and the record right after
\* them, if any, no deeper than the parent.
C3_ChildrenAreTheRunAfterParent ==
    Collected =>
        LET k == RunEnd(base_rows, pidx) IN
        /\ base_children = [i \in 1..(k - 1 - pidx) |-> pidx + i]
        /\ \A i \in DOMAIN base_children :
               base_rows[base_children[i]].indent > base_rows[pidx].indent
        /\ k <= Len(base_rows) =>
               base_rows[k].indent <= base_rows[pidx].indent

\* a parent that is not the first row, and after it a run of two records
\* that a record no deeper than the parent ends
C3_Witness ==
    /\ Collected
    /\ Len(base_children) >= 2
    /\ pidx > 1
    /\ RunEnd(base_rows, pidx) <= Len(base_rows)

\* the record j is nested directly under: the nearest record before it that
\* is less deep, 0 when there is none
ParentOf(rows, j) ==
    LET above == {i \in 1..(j - 1) : rows[i].indent < rows[j].indent}
    IN  IF above = {} THEN 0
        ELSE CHOOSE i \in above : \A h \in above : h <= i

RECURSIVE IsNestedUnder(_, _, _)
\* p is the parent of j, or of its parent, and so on
IsNestedUnder(rows, j, p) ==
    LET q == ParentOf(rows, j) IN
    IF q = 0 THEN FALSE
    ELSE IF q = p THEN TRUE
    ELSE IsNestedUnder(rows, q, p)

\* C4, as claimed: collect_children returns only direct children of the
\* parent, all at one nesting level; no record nested under a child of the
\* parent is returned.
C4_OnlyDirectChildren ==
    Collected =>
        /\ \A i \in DOMAIN base_children :
               ParentOf(base_rows, base_children[i]) = pidx
        /\ \A i, j \in DOMAIN base_children :
               base_rows[base_children[i]].indent
                   = base_rows[base_children[j]].indent

\* C4, amended: collect_children returns every record nested under the
\* parent at any depth, its children, their children and so on, and no
\* other record.
C4_AllDescendants ==
    Collected =>
        Range(base_children) =
            {j \in DOMAIN base_rows : IsNestedUnder(base_rows, j, pidx)}

\* a record nested under a child of the parent is returned
C4_Witness ==
    /\ Collected
    /\ \E i \in DOMAIN base_children :
           /\ ParentOf(base_rows, base_children[i]) # pidx
           /\ ParentOf(base_rows, base_children[i]) \in Range(base_children)

\* m has one entry for each name of rows, the row of its last occurrence
IsRegistryOf(m, rows) ==
    /\ Cardinality(DOMAIN m) <= Len(rows)
    /\ DOMAIN m = {rows[i].region : i \in DOMAIN rows}
    /\ \A i \in DOMAIN rows :
           (\A j \in DOMAIN rows : j > i => rows[j].region # rows[i].region)
               => m[rows[i].region] = rows[i]

\* C5: a registry has at most as many entries as the sequence it is built
\* from has records, one for exactly each name of the sequence, and for a
\* name that occurs again the record of its last occurrence: run_cam's
\* opt_map over the optimized rows, timing's base_data and opt_data over the
\* rows of the timers asked for.
C5_RegistryLastOccurrenceWins ==
    /\ (prog = "run_cam" /\ pc \in {"rows", "plot"}) =>
           IsRegistryOf(opt_map, opt_rows)
    /\ (prog = "timing" /\ pc \in {"baseline", "overlay", "done"}) =>
           /\ IsRegistryOf(base_data,
                           extract_named_regions(base_rows, args.timers))
           /\ opt_rows # <<>> =>
                  IsRegistryOf(opt_data,
                               extract_named_regions(opt_rows, args.timers))

\* a name occurs twice, with different records, and the registry is built
C5_Witness ==
    /\ prog = "run_cam" /\ pc = "rows"
    /\ Len(opt_rows) = 3
    /\ opt_rows[1].region = opt_rows[3].region
    /\ opt_rows[1].mean # opt_rows[3].mean
    /\ Cardinality(DOMAIN opt_map) = 2

\* the names of the rows of a summary
NamesOf(rows) == {rows[i].region : i \in DOMAIN rows}

\* C2: with an optimized summary supplied every selected baseline child gives
\* exactly one output row, also when its name has no counterpart or the
\* counterpart's mean is 0; the row says so, and no run ends abnormally
\* because of it.
C2_EverySelectedChildYieldsARow ==
    args.has_opt =>
        /\ (prog = "run_cam" /\ pc \in {"plot", "done"} /\ exit # "RuntimeError")
               =>
               /\ Len(csv_rows) = Len(base_children_sorted)
               /\ \A k \in DOMAIN csv_rows :
                      LET r == base_rows[base_children_sorted[k]] IN
                      /\ csv_rows[k].region = r.region
                      /\ csv_rows[k].counterpart
                             = (r.region \in NamesOf(opt_rows))
                      /\ (csv_rows[k].counterpart
                            /\ csv_rows[k].optimized_mean_s = 0)
                             => csv_rows[k].speedup_base_over_opt = NoneVal
        /\ (prog = "timing" /\ Range(args.timers) \subseteq NamesOf(base_rows))
               => exit # "KeyError"

\* C6: a supplied document of which no line matches fails to parse with the
\* "no rows" error and the run is aborted; no run goes on with an empty
\* sequence of rows.
C6_UnrecognizedDocumentAborts ==
    /\ ("baseline" \in read /\ ParseRows(args.summary) = <<>>)
           => exit = "RuntimeError"
    /\ ("optimized" \in read /\ ParseRows(args.optimized_summary) = <<>>)
           => exit = "RuntimeError"

\* the label the classification rule gives
ExpectedLabel(base, opt, threshold) ==
    IF base > 0 /\ base # opt /\ 100 * Abs(base - opt) >= threshold * base
    THEN IF opt < base THEN "faster" ELSE "slower"
    ELSE "none"

\* C7: for every row with a counterpart and every threshold a label is
\* attached exactly when |percentage delta| >= threshold, "faster" when the
\* optimized mean is smaller and "slower" when it is larger; a delta of
\* exactly zero is never labelled.
C7_LabelIffAtThreshold ==
    /\ (prog = "run_cam" /\ pc = "done" /\ exit = "ok" /\ args.png
            /\ args.has_opt) =>
           \A k \in DOMAIN csv_rows :
               csv_rows[k].counterpart =>
                   annotations[k].kind =
                       ExpectedLabel(csv_rows[k].baseline_mean_s,
                                     csv_rows[k].optimized_mean_s,
                                     ANNOTATE_THRESHOLD_PCT)
    /\ (prog = "timing" /\ pc = "done" /\ exit = "ok"
            /\ DOMAIN opt_data # {}) =>
           \A i \in DOMAIN args.timers :
               annotations[i].kind =
                   ExpectedLabel(base_data[args.timers[i]].mean,
                                 opt_data[args.timers[i]].mean,
                                 args.annotate_threshold)

\* C8: the delta reported follows the comparison mode selected: as a
\* percentage it is 100*(base-opt)/base, as a multiple (--use-times) it is
\* base/opt; with a denominator that is not positive nothing is reported.
C8_DeltaFollowsMode ==
    (prog = "timing" /\ pc = "done" /\ exit = "ok" /\ DOMAIN opt_data # {}) =>
        \A i \in DOMAIN args.timers :
            LET base == base_data[args.timers[i]].mean
                opt == opt_data[args.timers[i]].mean
                label == annotations[i]
            IN  label.kind # "none" =>
                    IF args.use_times
                    THEN /\ opt > 0
                         /\ label.unit = "x"
                         /\ label.num * opt = base * label.den
                    ELSE /\ base > 0
                         /\ label.unit = "%"
                         /\ label.num * base
                                = 100 * Abs(base - opt) * label.den

\* C9: with the region absent from the baseline the run stops and gives no
\* rows; with the region absent from the optimized summary none of its
\* records is the counterpart of a row.
C9_RegionNotFoundAborts ==
    prog = "run_cam" =>
        /\ (pc \notin {"parse", "find"} /\ pidx = 0 /\ base_rows # <<>>)
               => (exit = "SystemExit" /\ csv_rows = <<>>)
        /\ (opt_rows # <<>> /\ find_region_rows(opt_rows, region) = 0)
               => \A k \in DOMAIN csv_rows : ~csv_rows[k].counterpart

\* C10: once a document is parsed its rows stay as parsed through every
\* later step; share of parent is not written into them.
C10_ParsedRowsUnchanged ==
    /\ "baseline" \in read => base_rows = ParseRows(args.summary)
    /\ "optimized" \in read => opt_rows = ParseRows(args.optimized_summary)

====
